---- MODULE Spec2Model ----
(***************************************************************************)
(* A model of the wishlist account backend: the user store, the password   *)
(* hasher, the session tokens, the authentication middleware and the       *)
(* account handlers.  The routes that change nothing and carry no          *)
(* credential (/ping, /db-test and the two verification-code placeholders) *)
(* are left out.                                                           *)
(*                                                                         *)
(* Strings are sequences of one-character strings, so that length, prefix  *)
(* and character-class checks are computed as the code computes them.      *)
(* An optional value is a sequence of length 0 (absent) or 1 (present).    *)
(***************************************************************************)
EXTENDS Integers, Sequences, FiniteSets, TLC

VARIABLES
    users,      \* the rows of table users
    nextId,     \* the next value of the SERIAL sequence users_id_seq
    now,        \* the wall clock, in hours
    issued,     \* every token GenerateToken has returned so far
    req,        \* the request handled last
    resp,       \* the response to it
    trace,      \* what handling it did: gate outcome, context, handler run, store access
    prev,       \* the rows of table users before it was handled
    hp,         \* the hasher called on its own: inputs and results of the last call
    vp,         \* a validator called on its own: the function, its input, its result
    procs,      \* the requests being handled concurrently, each at its next database call
    env         \* the clients connected: which requests are sent (never changes)

vars == <<users, nextId, now, issued, req, resp, trace, prev, hp, vp, procs, env>>

-----------------------------------------------------------------------------
(* Bounds of the model *)

MaxTicks == 2
MaxTokens == 2
MaxId == 1
MaxText == 3
MaxProcs == 2
MaxReqs == 2

-----------------------------------------------------------------------------
(* Strings *)

NUL == "NUL"

Rep(c, n) == [i \in 1..n |-> c]

Some(x) == <<x>>
None == <<>>

-----------------------------------------------------------------------------
(* Password hashing: golang.org/x/crypto/bcrypt as used by auth/password.go *)

BcryptKeyBytes == 72

\* bcrypt.DefaultCost, written into the hash string
DefaultCost == "10"

AllSalts == {"s1", "s2"}

\* the salts the entropy source gives
Salts == IF env = "hasher" THEN AllSalts ELSE {"s1"}

\* The key schedule reads the password followed by a NUL byte, cyclically,
\* for 72 bytes; nothing else of the password enters the digest.
KeyExpansion(password) ==
    LET ckey == Append(password, NUL)
    IN  [i \in 1..BcryptKeyBytes |-> ckey[((i - 1) % Len(ckey)) + 1]]

\* "$2a$" cost "$" salt digest
BcryptString(password, salt) ==
    <<"$2a$", DefaultCost, "$", salt>> \o KeyExpansion(password)

IsBcryptString(hash) ==
    /\ Len(hash) = 4 + BcryptKeyBytes
    /\ hash[1] = "$2a$"
    /\ hash[2] = DefaultCost
    /\ hash[3] = "$"
    /\ hash[4] \in AllSalts

\* bcrypt.GenerateFromPassword: the outcomes a build can produce.  Reading the
\* salt from the entropy source can fail; a password of more than 72 bytes is
\* refused by current releases of the library (ErrPasswordTooLong) and hashed,
\* cut to 72 bytes by the key schedule, by earlier ones.
GenerateFromPassword(password) ==
    {[err |-> "entropy", hash |-> <<>>]}
    \cup (IF Len(password) > BcryptKeyBytes
          THEN {[err |-> "too long", hash |-> <<>>]} ELSE {})
    \cup {[err |-> "", hash |-> BcryptString(password, s)] : s \in Salts}

HashPassword_plain(password) ==
    {[err |-> "", cause |-> "", hash |-> password]}

\* HashPassword: the error is wrapped, the hash returned as a string
HashPassword(password) ==
    {[err |-> IF o.err = "" THEN "" ELSE "failed to hash password",
      cause |-> o.err,
      hash |-> o.hash] : o \in GenerateFromPassword(password)}

\* bcrypt.CompareHashAndPassword: "" on a match, else the library's error
CompareHashAndPassword(hash, password) ==
    IF ~IsBcryptString(hash) THEN "hash malformed"
    ELSE IF BcryptString(password, hash[4]) = hash THEN ""
    ELSE "mismatched hash and password"

\* CheckPassword: every error of the comparison becomes "invalid password"
CheckPassword(password, hash) ==
    IF CompareHashAndPassword(hash, password) # "" THEN "invalid password" ELSE ""

-----------------------------------------------------------------------------
(* Configuration: the package variable config of package app *)

JWTSecret == "your-super-secret-jwt-key-change-in-production"
JWTExpiration == 24
Hour == 1

TokenTTL_zero == 0

\* time.Duration(config.JWTExpiration) * time.Hour, the ttl given to NewJWTManager
TokenTTL == JWTExpiration * Hour

\* int64(config.JWTExpiration * 3600), the expires_in of a token response
ExpiresIn == JWTExpiration * 3600

-----------------------------------------------------------------------------
(* Session tokens: JWTManager.  A token is its claim set and a signature    *)
(* that binds the claim set to the key it was made with.                   *)

Sign(key, claims) == [key |-> key, over |-> claims]

Jwt(claims, sig) == [k |-> "jwt", claims |-> claims, sig |-> sig]

MakeClaims(userID, username, email, t, ttl) ==
    [user_id |-> userID, username |-> username, email |-> email,
     iat |-> t, exp |-> t + ttl]

\* GenerateToken at time t; signOk is FALSE when signing is unavailable
GenerateToken(userID, username, email, t, signOk) ==
    IF ~signOk THEN [err |-> "signing unavailable", token |-> None]
    ELSE LET claims == MakeClaims(userID, username, email, t, TokenTTL)
         IN  [err |-> "", token |-> Some(Jwt(claims, Sign(JWTSecret, claims)))]

\* ValidateToken of the value of a bearer header at time t.  The value is a
\* sequence of header pieces; a token is exactly one piece of kind "jwt".
ValidateToken(value, t) ==
    IF Len(value) # 1 \/ value[1].k # "jwt"
    THEN [err |-> "Malformed", claims |-> None]
    ELSE IF value[1].sig # Sign(JWTSecret, value[1].claims)
    THEN [err |-> "InvalidSignature", claims |-> None]
    ELSE IF t > value[1].claims.exp
    THEN [err |-> "Expired", claims |-> None]
    ELSE [err |-> "", claims |-> Some(value[1].claims)]

-----------------------------------------------------------------------------
(* The Authorization header: a sequence of pieces, each a space, a run of   *)
(* other characters, or a serialized token (which holds no space).         *)

Sp == [k |-> "sp"]
W(s) == [k |-> "w", s |-> s]

\* strings.SplitN(authHeader, " ", 2)
SplitN2(h) ==
    LET idx == {i \in 1..Len(h) : h[i].k = "sp"}
    IN  IF idx = {} THEN <<h>>
        ELSE LET i == CHOOSE j \in idx : \A m \in idx : j <= m
             IN  <<SubSeq(h, 1, i - 1), SubSeq(h, i + 1, Len(h))>>

NoCtx == None
Ctx(claims) == Some([user_id |-> claims.user_id, username |-> claims.username,
                     email |-> claims.email])

AuthMiddleware_noabort(authHeader, t) ==
    LET parts == SplitN2(authHeader)
    IN  IF authHeader = <<>>
        THEN [next |-> FALSE, status |-> 401, error |-> "Authorization header is required",
              ctx |-> NoCtx, tokErr |-> ""]
        ELSE IF Len(parts) # 2 \/ parts[1] # <<W("Bearer")>>
        THEN [next |-> FALSE, status |-> 401, error |-> "Invalid authorization header format",
              ctx |-> NoCtx, tokErr |-> ""]
        ELSE LET v == ValidateToken(parts[2], t)
             IN  IF v.err # ""
                 THEN [next |-> TRUE, status |-> 401, error |-> "Invalid or expired token",
                       ctx |-> NoCtx, tokErr |-> v.err]
                 ELSE [next |-> TRUE, status |-> 0, error |-> "", ctx |-> Ctx(v.claims[1]),
                       tokErr |-> ""]

AuthMiddleware_noverify(authHeader, t) ==
    LET parts == SplitN2(authHeader)
    IN  IF authHeader = <<>>
        THEN [next |-> FALSE, status |-> 401, error |-> "Authorization header is required",
              ctx |-> NoCtx, tokErr |-> ""]
        ELSE IF Len(parts) # 2 \/ parts[1] # <<W("Bearer")>>
        THEN [next |-> FALSE, status |-> 401, error |-> "Invalid authorization header format",
              ctx |-> NoCtx, tokErr |-> ""]
        ELSE IF Len(parts[2]) # 1 \/ parts[2][1].k # "jwt"
        THEN [next |-> FALSE, status |-> 401, error |-> "Invalid or expired token",
              ctx |-> NoCtx, tokErr |-> "Malformed"]
        ELSE [next |-> TRUE, status |-> 0, error |-> "", ctx |-> Ctx(parts[2][1].claims),
              tokErr |-> ""]

AuthMiddleware_onemsg(authHeader, t) ==
    LET parts == SplitN2(authHeader)
        v == IF Len(parts) = 2 THEN ValidateToken(parts[2], t)
             ELSE [err |-> "Malformed", claims |-> None]
    IN  IF authHeader = <<>> \/ Len(parts) # 2 \/ parts[1] # <<W("Bearer")>> \/ v.err # ""
        THEN [next |-> FALSE, status |-> 401, error |-> "Invalid or expired token",
              ctx |-> NoCtx, tokErr |-> v.err]
        ELSE [next |-> TRUE, status |-> 0, error |-> "", ctx |-> Ctx(v.claims[1]),
              tokErr |-> ""]

\* AuthMiddleware on a request with this Authorization header at time t:
\* next says whether c.Next() runs the handler; else the request is aborted
\* with status and error.
AuthMiddleware(authHeader, t) ==
    LET parts == SplitN2(authHeader)
    IN  IF authHeader = <<>>
        THEN [next |-> FALSE, status |-> 401, error |-> "Authorization header is required",
              ctx |-> NoCtx, tokErr |-> ""]
        ELSE IF Len(parts) # 2 \/ parts[1] # <<W("Bearer")>>
        THEN [next |-> FALSE, status |-> 401, error |-> "Invalid authorization header format",
              ctx |-> NoCtx, tokErr |-> ""]
        ELSE LET v == ValidateToken(parts[2], t)
             IN  IF v.err # ""
                 THEN [next |-> FALSE, status |-> 401, error |-> "Invalid or expired token",
                       ctx |-> NoCtx, tokErr |-> v.err]
                 ELSE [next |-> TRUE, status |-> 0, error |-> "", ctx |-> Ctx(v.claims[1]),
                       tokErr |-> ""]

-----------------------------------------------------------------------------
(* Characters and the checks of model/types.go *)

Lower == {"a","b","c","d","e","f","g","h","i","j","k","l","m",
          "n","o","p","q","r","s","t","u","v","w","x","y","z"}
Upper == {"A","B","C","D","E","F","G","H","I","J","K","L","M",
          "N","O","P","Q","R","S","T","U","V","W","X","Y","Z"}
Digit == {"0","1","2","3","4","5","6","7","8","9"}
Letter == Lower \cup Upper
AlNum == Letter \cup Digit

\* a character outside ASCII takes two bytes in UTF-8
TwoByte == {"U+00E9"}

RECURSIVE ByteLen(_)
\* len(s) of a Go string: its length in bytes
ByteLen(s) ==
    IF s = <<>> THEN 0
    ELSE (IF Head(s) \in TwoByte THEN 2 ELSE 1) + ByteLen(Tail(s))

\* utf8.RuneCountInString(s)
RuneCount(s) == Len(s)

AllIn(s, cls) == \A i \in 1..Len(s) : s[i] \in cls
AnyIn(s, cls) == \E i \in 1..Len(s) : s[i] \in cls

ToLowerChar(c) ==
    CASE c = "M" -> "m" [] c = "A" -> "a" [] c = "L" -> "l" [] c = "E" -> "e"
      [] c = "F" -> "f" [] c = "U" -> "u" [] c = "N" -> "n" [] c = "K" -> "k"
      [] c = "O" -> "o" [] c = "W" -> "w" [] c = "X" -> "x" [] c = "Y" -> "y"
      [] c = "Z" -> "z" [] c = "B" -> "b" [] c = "C" -> "c" [] c = "D" -> "d"
      [] c = "G" -> "g" [] c = "H" -> "h" [] c = "I" -> "i" [] c = "J" -> "j"
      [] c = "P" -> "p" [] c = "Q" -> "q" [] c = "R" -> "r" [] c = "S" -> "s"
      [] c = "T" -> "t" [] c = "V" -> "v" [] OTHER -> c

\* strings.ToLower
ToLower(s) == [i \in 1..Len(s) |-> ToLowerChar(s[i])]

S_male == <<"m","a","l","e">>
S_female == <<"f","e","m","a","l","e">>
S_unknown == <<"u","n","k","n","o","w","n">>

GenderUnknown == "unknown"
GenderMale == "male"
GenderFemale == "female"

\* ParseGender
ParseGender(gender) ==
    IF ToLower(gender) = S_male THEN GenderMale
    ELSE IF ToLower(gender) = S_female THEN GenderFemale
    ELSE GenderUnknown

\* Gender.IsValid
IsValid(g) == g = GenderMale \/ g = GenderFemale \/ g = GenderUnknown

UsernameMinLength == 3
UsernameMaxLength == 50
EmailMaxLength == 100
PasswordMinLength == 8

UsernameCls == AlNum \cup {"_", "-"}
EmailLocalCls == AlNum \cup {".", "_", "%", "+", "-"}
EmailDomainCls == AlNum \cup {".", "-"}

\* usernameRegex: ^[a-zA-Z0-9_-]+$
usernameRegex(s) == Len(s) >= 1 /\ AllIn(s, UsernameCls)

\* emailRegex: ^[a-zA-Z0-9._%+-]+@[a-zA-Z0-9.-]+\.[a-zA-Z]{2,}$
emailRegex(s) ==
    \E i \in 1..Len(s) : \E j \in (i + 1)..Len(s) :
        /\ s[i] = "@"
        /\ s[j] = "."
        /\ i >= 2 /\ AllIn(SubSeq(s, 1, i - 1), EmailLocalCls)
        /\ j >= i + 2 /\ AllIn(SubSeq(s, i + 1, j - 1), EmailDomainCls)
        /\ Len(s) - j >= 2 /\ AllIn(SubSeq(s, j + 1, Len(s)), Letter)

validateUsername_le(username) ==
    IF ByteLen(username) <= UsernameMinLength THEN "username is too short"
    ELSE IF ByteLen(username) > UsernameMaxLength THEN "username is too long"
    ELSE IF ~usernameRegex(username)
    THEN "username can only contain alphanumeric characters, underscores, and hyphens"
    ELSE ""

\* validateUsername: "" when valid, else the error
validateUsername(username) ==
    IF ByteLen(username) < UsernameMinLength THEN "username is too short"
    ELSE IF ByteLen(username) > UsernameMaxLength THEN "username is too long"
    ELSE IF ~usernameRegex(username)
    THEN "username can only contain alphanumeric characters, underscores, and hyphens"
    ELSE ""

\* validateEmail
validateEmail(email) ==
    IF ByteLen(email) > EmailMaxLength THEN "email is too long"
    ELSE IF ~emailRegex(email) THEN "invalid email format"
    ELSE ""

\* validateGender
validateGender(gender) ==
    IF gender = <<>> THEN ""
    ELSE IF ~IsValid(ParseGender(gender)) THEN "gender must be one of: male, female, unknown"
    ELSE ""

validatePassword_nonumber(password) ==
    IF ByteLen(password) < PasswordMinLength THEN "password is too short"
    ELSE IF ~AnyIn(password, Upper) \/ ~AnyIn(password, Lower)
    THEN "password must contain at least one uppercase letter, one lowercase letter, and one number"
    ELSE ""

\* validatePassword
validatePassword(password) ==
    IF ByteLen(password) < PasswordMinLength THEN "password is too short"
    ELSE IF ~AnyIn(password, Upper) \/ ~AnyIn(password, Lower) \/ ~AnyIn(password, Digit)
    THEN "password must contain at least one uppercase letter, one lowercase letter, and one number"
    ELSE ""

\* UserCreateRequest.Validate: the first failure, with the field's prefix
ValidateCreate(r) ==
    IF validateUsername(r.username) # ""
    THEN <<"username validation failed", validateUsername(r.username)>>
    ELSE IF validateEmail(r.email) # ""
    THEN <<"email validation failed", validateEmail(r.email)>>
    ELSE IF validateGender(r.gender) # ""
    THEN <<"gender validation failed", validateGender(r.gender)>>
    ELSE IF validatePassword(r.password) # ""
    THEN <<"password validation failed", validatePassword(r.password)>>
    ELSE <<>>

ValidateUpdate_absent(r) ==
    LET val(f) == IF f = None THEN <<>> ELSE f[1]
    IN  ValidateCreate([username |-> val(r.username), email |-> val(r.email),
                        gender |-> val(r.gender), password |-> val(r.password)])

\* UserUpdateRequest.Validate: only the fields that are present
ValidateUpdate(r) ==
    IF r.username # None /\ validateUsername(r.username[1]) # ""
    THEN <<"username validation failed", validateUsername(r.username[1])>>
    ELSE IF r.email # None /\ validateEmail(r.email[1]) # ""
    THEN <<"email validation failed", validateEmail(r.email[1])>>
    ELSE IF r.gender # None /\ validateGender(r.gender[1]) # ""
    THEN <<"gender validation failed", validateGender(r.gender[1])>>
    ELSE IF r.password # None /\ validatePassword(r.password[1]) # ""
    THEN <<"password validation failed", validatePassword(r.password[1])>>
    ELSE <<>>

-----------------------------------------------------------------------------
(* The binding tags of the request structs, checked by ShouldBindJSON *)

AText == AlNum \cup {"!","#","$","%","&","'","*","+","-","/","=","?","^","_","BACKTICK","{","|","}","~"}
DomText == AlNum \cup {"-", ".", "~"}

\* the local part: runs of atext separated by single dots
EmailTagLocal(l) ==
    /\ Len(l) >= 1
    /\ AllIn(l, AText \cup {"."})
    /\ l[1] # "." /\ l[Len(l)] # "."
    /\ \A i \in 1..(Len(l) - 1) : ~(l[i] = "." /\ l[i + 1] = ".")

\* the domain: one or more labels, each followed by a dot, then a last label
\* that starts and ends with a letter
EmailTagDomain(d) ==
    \E j \in 2..(Len(d) - 1) :
        /\ d[j] = "."
        /\ AllIn(d, DomText)
        /\ d[1] \in AlNum /\ d[j - 1] \in AlNum
        /\ d[j + 1] \in Letter /\ d[Len(d)] \in Letter

\* binding:"email"
EmailTag(s) ==
    \E i \in 2..(Len(s) - 1) :
        /\ s[i] = "@"
        /\ EmailTagLocal(SubSeq(s, 1, i - 1))
        /\ LET d == SubSeq(s, i + 1, Len(s))
           IN  \/ EmailTagDomain(d)
               \/ d[Len(d)] = "." /\ EmailTagDomain(SubSeq(d, 1, Len(d) - 1))

\* binding:"oneof=male female unknown"
OneOfGender(s) == s \in {S_male, S_female, S_unknown}

\* UserLoginRequest: email "required,email", password "required"
BindLogin(b) ==
    /\ b.email # <<>> /\ EmailTag(b.email)
    /\ b.password # <<>>

\* UserCreateRequest: username "required,min=3,max=50", email "required,email",
\* gender "omitempty,oneof=male female unknown", password "required,min=8"
BindCreate(b) ==
    /\ b.username # <<>> /\ RuneCount(b.username) >= 3 /\ RuneCount(b.username) <= 50
    /\ b.email # <<>> /\ EmailTag(b.email)
    /\ b.gender = <<>> \/ OneOfGender(b.gender)
    /\ b.password # <<>> /\ RuneCount(b.password) >= 8

\* UserUpdateRequest: the same tags under omitempty, on pointers: a field
\* that is absent is skipped, one that is present is checked, the empty
\* string included
BindUpdate(b) ==
    /\ b.username = None
       \/ (RuneCount(b.username[1]) >= 3 /\ RuneCount(b.username[1]) <= 50)
    /\ b.email = None \/ EmailTag(b.email[1])
    /\ b.gender = None \/ OneOfGender(b.gender[1])
    /\ b.password = None \/ RuneCount(b.password[1]) >= 8

-----------------------------------------------------------------------------
(* The user store: table users and UserRepository.  fail says that the      *)
(* database call fails (the connection is lost).                           *)

NoUser == None

\* CREATE TABLE users: the column widths and the check on gender
FitsColumns(u) ==
    /\ RuneCount(u.username) <= 50
    /\ RuneCount(u.email) <= 100
    /\ u.gender \in {"male", "female", "unknown"}
    /\ Len(u.password_hash) <= 255

UniqueOk_none(rows, u) == TRUE

\* username UNIQUE, email UNIQUE
UniqueOk(rows, u) ==
    \A r \in rows : r.id # u.id => r.username # u.username /\ r.email # u.email

\* UserRepository.GetByEmail
GetByEmail(rows, email, fail) ==
    LET hit == {r \in rows : r.email = email}
    IN  IF fail THEN [err |-> "failed to get user", user |-> NoUser]
        ELSE IF hit = {} THEN [err |-> "not found", user |-> NoUser]
        ELSE [err |-> "", user |-> Some(CHOOSE r \in hit : TRUE)]

\* UserRepository.GetByID
GetByID(rows, id, fail) ==
    LET hit == {r \in rows : r.id = id}
    IN  IF fail THEN [err |-> "failed to get user", user |-> NoUser]
        ELSE IF hit = {} THEN [err |-> "not found", user |-> NoUser]
        ELSE [err |-> "", user |-> Some(CHOOSE r \in hit : TRUE)]

\* UserRepository.ExistsByUsername
ExistsByUsername(rows, username, fail) ==
    IF fail THEN [err |-> "failed to check username existence", exists |-> FALSE]
    ELSE [err |-> "", exists |-> Cardinality({r \in rows : r.username = username}) > 0]

\* UserRepository.ExistsByEmail
ExistsByEmail(rows, email, fail) ==
    IF fail THEN [err |-> "failed to check email existence", exists |-> FALSE]
    ELSE [err |-> "", exists |-> Cardinality({r \in rows : r.email = email}) > 0]

\* UserRepository.Create: INSERT ... RETURNING id.  The sequence is advanced
\* before the constraints are checked, so a refused insert uses up an id.
Create(rows, nid, user, fail) ==
    LET u == [user EXCEPT !.id = nid]
    IN  IF fail THEN [err |-> "failed to create user", rows |-> rows, nid |-> nid, id |-> 0]
        ELSE IF ~FitsColumns(u) \/ ~UniqueOk(rows, u)
        THEN [err |-> "failed to create user", rows |-> rows, nid |-> nid + 1, id |-> 0]
        ELSE [err |-> "", rows |-> rows \cup {u}, nid |-> nid + 1, id |-> nid]

\* UserRepository.Update at time t: every column but id and created_at is
\* written from the struct; updated_at is set again by BeforeUpdate
Update(rows, user, t, fail) ==
    LET old == {r \in rows : r.id = user.id}
        u == [user EXCEPT !.updated_at = t]
    IN  IF fail THEN [err |-> "failed to update user", rows |-> rows]
        ELSE IF old = {} THEN [err |-> "not found", rows |-> rows]
        ELSE IF ~FitsColumns(u) \/ ~UniqueOk(rows, u)
        THEN [err |-> "failed to update user", rows |-> rows]
        ELSE [err |-> "",
              rows |-> (rows \ old)
                       \cup {[u EXCEPT !.created_at = r.created_at] : r \in old}]

\* UserRepository.List: ORDER BY created_at DESC; the order among equal
\* times is the database's choice, so the rows are kept as a set
List(rows, fail) ==
    IF fail THEN [err |-> "failed to list users", rows |-> {}]
    ELSE [err |-> "", rows |-> rows]

\* User.ToResponse
ToResponse(u) ==
    [id |-> u.id, username |-> u.username, email |-> u.email, gender |-> u.gender,
     created_at |-> u.created_at, updated_at |-> u.updated_at]

-----------------------------------------------------------------------------
(* The handlers of module/account/action.  Each is given the table, the     *)
(* clock and its inputs, and gives the set of its possible outcomes: the   *)
(* response and the table afterwards.  Where the clients' population       *)
(* allows faults, a database call may fail, the entropy source may fail    *)
(* and signing may fail.                                                   *)

MayFail == env \in {"account", "profile"}
DbFails == IF MayFail THEN {FALSE, TRUE} ELSE {FALSE}
SignOks == IF MayFail THEN {TRUE, FALSE} ELSE {TRUE}

\* the outcomes of HashPassword under the faults allowed
Hashes(password) ==
    {h \in HashPassword(password) : h.cause = "entropy" => MayFail}

Out(status, error, rows, nid, reads, fault) ==
    [status |-> status, error |-> error, details |-> <<>>, token |-> None,
     user |-> None, list |-> {}, creds |-> None, rows |-> rows, nid |-> nid,
     reads |-> reads, fault |-> fault]

DbFault(fail) == IF fail THEN "db" ELSE ""

LoginOk_unauthorized(rows, nid, t, user) ==
    UNION {LET g == GenerateToken(user.id, user.username, user.email, t, signOk)
           IN  IF g.err # ""
               THEN {Out(401, "Invalid email or password", rows, nid, TRUE, "sign")}
               ELSE {[Out(200, "", rows, nid, TRUE, "") EXCEPT
                          !.token = g.token, !.user = Some(ToResponse(user))]}
           : signOk \in SignOks}

\* ActionLogin once the password is checked: the token and the answer
LoginOk(rows, nid, t, user) ==
    UNION {LET g == GenerateToken(user.id, user.username, user.email, t, signOk)
           IN  IF g.err # ""
               THEN {Out(500, "Failed to generate authentication token", rows, nid, TRUE, "sign")}
               ELSE {[Out(200, "", rows, nid, TRUE, "") EXCEPT
                          !.token = g.token, !.user = Some(ToResponse(user))]}
           : signOk \in SignOks}

ActionLogin_nopw(rows, nid, t, b) ==
    IF ~BindLogin(b) THEN {Out(400, "Invalid request format", rows, nid, FALSE, "")}
    ELSE UNION {LET got == GetByEmail(rows, b.email, fail)
                IN  IF got.err # ""
                    THEN {Out(401, "Invalid email or password", rows, nid, TRUE, DbFault(fail))}
                    ELSE LoginOk(rows, nid, t, got.user[1])
                : fail \in DbFails}

ActionLogin_tell(rows, nid, t, b) ==
    IF ~BindLogin(b) THEN {Out(400, "Invalid request format", rows, nid, FALSE, "")}
    ELSE UNION {LET got == GetByEmail(rows, b.email, fail)
                IN  IF got.err # ""
                    THEN {Out(404, "User with this email not found", rows, nid, TRUE,
                              DbFault(fail))}
                    ELSE IF CheckPassword(b.password, got.user[1].password_hash) # ""
                    THEN {Out(401, "Invalid email or password", rows, nid, TRUE, "")}
                    ELSE LoginOk(rows, nid, t, got.user[1])
                : fail \in DbFails}

\* ActionLogin
ActionLogin(rows, nid, t, b) ==
    IF ~BindLogin(b) THEN {Out(400, "Invalid request format", rows, nid, FALSE, "")}
    ELSE UNION {LET got == GetByEmail(rows, b.email, fail)
                IN  IF got.err # ""
                    THEN {Out(401, "Invalid email or password", rows, nid, TRUE, DbFault(fail))}
                    ELSE IF CheckPassword(b.password, got.user[1].password_hash) # ""
                    THEN {Out(401, "Invalid email or password", rows, nid, TRUE, "")}
                    ELSE LoginOk(rows, nid, t, got.user[1])
                : fail \in DbFails}

ActionLogout_wipe(rows, nid) == {Out(200, "", {}, nid, FALSE, "")}

\* ActionLogout
ActionLogout(rows, nid) == {Out(200, "", rows, nid, FALSE, "")}

ActionRefreshToken_reread(rows, nid, t, ctx) ==
    IF ctx = NoCtx THEN {Out(401, "User not authenticated", rows, nid, FALSE, "")}
    ELSE LET got == GetByID(rows, ctx[1].user_id, FALSE)
         IN  IF got.err # "" THEN {Out(401, "User not authenticated", rows, nid, TRUE, "")}
             ELSE {[Out(200, "", rows, nid, TRUE, "") EXCEPT
                        !.token = GenerateToken(got.user[1].id, got.user[1].username,
                                                got.user[1].email, t, TRUE).token]}

\* ActionRefreshToken
ActionRefreshToken(rows, nid, t, ctx) ==
    IF ctx = NoCtx THEN {Out(401, "User not authenticated", rows, nid, FALSE, "")}
    ELSE UNION {LET g == GenerateToken(ctx[1].user_id, ctx[1].username, ctx[1].email, t, signOk)
                IN  IF g.err # ""
                    THEN {Out(500, "Failed to refresh authentication token", rows, nid,
                              FALSE, "sign")}
                    ELSE {[Out(200, "", rows, nid, FALSE, "") EXCEPT !.token = g.token]}
                : signOk \in SignOks}

\* ActionGetProfile
ActionGetProfile(rows, nid, ctx) ==
    IF ctx = NoCtx THEN {Out(401, "User not authenticated", rows, nid, FALSE, "")}
    ELSE UNION {LET got == GetByID(rows, ctx[1].user_id, fail)
                IN  IF got.err # ""
                    THEN {Out(404, "User not found", rows, nid, TRUE, DbFault(fail))}
                    ELSE {[Out(200, "", rows, nid, TRUE, "") EXCEPT
                               !.user = Some(ToResponse(got.user[1]))]}
                : fail \in DbFails}

\* ActionListUsers
ActionListUsers(rows, nid) ==
    UNION {LET l == List(rows, fail)
           IN  IF l.err # "" THEN {Out(500, "Failed to retrieve users", rows, nid, TRUE, "db")}
               ELSE {[Out(200, "", rows, nid, TRUE, "") EXCEPT
                          !.list = {ToResponse(u) : u \in l.rows}]}
           : fail \in DbFails}

\* the model.User built by a handler, id not yet assigned; BeforeCreate
NewUser(username, email, gender, hash, t) ==
    [id |-> 0, username |-> username, email |-> email, gender |-> gender,
     password_hash |-> hash, created_at |-> t, updated_at |-> t]

\* ActionCreateUser from the hashing on
CreateUserSave(rows, nid, t, b) ==
    UNION {IF h.err # "" THEN {Out(500, "Failed to hash password", rows, nid, TRUE, "hash")}
           ELSE UNION {LET c == Create(rows, nid,
                                       NewUser(b.username, b.email, ParseGender(b.gender),
                                               h.hash, t), fail)
                       IN  IF c.err # ""
                           THEN {Out(500, "Failed to create user", c.rows, c.nid, TRUE,
                                     DbFault(fail))}
                           ELSE {[Out(201, "", c.rows, c.nid, TRUE, "") EXCEPT
                                      !.user = Some(ToResponse(CHOOSE u \in c.rows : u.id = c.id))]}
                       : fail \in DbFails}
           : h \in Hashes(b.password)}

\* ActionCreateUser from the email check on
CreateUserEmail(rows, nid, t, b) ==
    UNION {LET ee == ExistsByEmail(rows, b.email, fail)
           IN  IF ee.err # ""
               THEN {Out(500, "Failed to check email availability", rows, nid, TRUE, "db")}
               ELSE IF ee.exists THEN {Out(409, "Email already exists", rows, nid, TRUE, "")}
               ELSE CreateUserSave(rows, nid, t, b)
           : fail \in DbFails}

ActionCreateUser_novalidate(rows, nid, t, b) ==
    IF ~BindCreate(b) THEN {Out(400, "Invalid request format", rows, nid, FALSE, "")}
    ELSE UNION {LET eu == ExistsByUsername(rows, b.username, fail)
                IN  IF eu.err # ""
                    THEN {Out(500, "Failed to check username availability", rows, nid, TRUE,
                              "db")}
                    ELSE IF eu.exists
                    THEN {Out(409, "Username already exists", rows, nid, TRUE, "")}
                    ELSE CreateUserEmail(rows, nid, t, b)
                : fail \in DbFails}

\* ActionCreateUser
ActionCreateUser(rows, nid, t, b) ==
    IF ~BindCreate(b) THEN {Out(400, "Invalid request format", rows, nid, FALSE, "")}
    ELSE IF ValidateCreate(b) # <<>>
    THEN {[Out(400, "Validation failed", rows, nid, FALSE, "") EXCEPT
               !.details = ValidateCreate(b)]}
    ELSE UNION {LET eu == ExistsByUsername(rows, b.username, fail)
                IN  IF eu.err # ""
                    THEN {Out(500, "Failed to check username availability", rows, nid, TRUE,
                              "db")}
                    ELSE IF eu.exists
                    THEN {Out(409, "Username already exists", rows, nid, TRUE, "")}
                    ELSE CreateUserEmail(rows, nid, t, b)
                : fail \in DbFails}

UpdateSave_gender(rows, nid, t, b, user) ==
    LET u3 == [user EXCEPT !.gender = ParseGender(IF b.gender # None THEN b.gender[1]
                                                  ELSE <<>>)]
        save(u4) ==
            UNION {LET u5 == [u4 EXCEPT !.updated_at = t]
                       up == Update(rows, u5, t, fail)
                   IN  IF up.err # ""
                       THEN {Out(500, "Failed to update user", up.rows, nid, TRUE,
                                 DbFault(fail))}
                       ELSE {[Out(200, "", up.rows, nid, TRUE, "") EXCEPT
                                  !.user = Some(ToResponse(u5))]}
                   : fail \in DbFails}
    IN  IF b.password = None THEN save(u3)
        ELSE UNION {IF h.err # ""
                    THEN {Out(500, "Failed to hash password", rows, nid, TRUE, "hash")}
                    ELSE save([u3 EXCEPT !.password_hash = h.hash])
                    : h \in Hashes(b.password[1])}

\* ActionUpdateProfile from the gender on; user is the struct so far
UpdateSave(rows, nid, t, b, user) ==
    LET u3 == IF b.gender # None THEN [user EXCEPT !.gender = ParseGender(b.gender[1])]
              ELSE user
        save(u4) ==
            UNION {LET u5 == [u4 EXCEPT !.updated_at = t]
                       up == Update(rows, u5, t, fail)
                   IN  IF up.err # ""
                       THEN {Out(500, "Failed to update user", up.rows, nid, TRUE,
                                 DbFault(fail))}
                       ELSE {[Out(200, "", up.rows, nid, TRUE, "") EXCEPT
                                  !.user = Some(ToResponse(u5))]}
                   : fail \in DbFails}
    IN  IF b.password = None THEN save(u3)
        ELSE UNION {IF h.err # ""
                    THEN {Out(500, "Failed to hash password", rows, nid, TRUE, "hash")}
                    ELSE save([u3 EXCEPT !.password_hash = h.hash])
                    : h \in Hashes(b.password[1])}

\* ActionUpdateProfile from the email check on
UpdateEmail(rows, nid, t, b, user) ==
    IF b.email # None /\ b.email[1] # user.email
    THEN UNION {LET ee == ExistsByEmail(rows, b.email[1], fail)
                IN  IF ee.err # ""
                    THEN {Out(500, "Failed to check email availability", rows, nid, TRUE, "db")}
                    ELSE IF ee.exists
                    THEN {Out(409, "Email already exists", rows, nid, TRUE, "")}
                    ELSE UpdateSave(rows, nid, t, b, [user EXCEPT !.email = b.email[1]])
                : fail \in DbFails}
    ELSE UpdateSave(rows, nid, t, b, user)

\* ActionUpdateProfile from the username check on
UpdateUsername(rows, nid, t, b, user) ==
    IF b.username # None /\ b.username[1] # user.username
    THEN UNION {LET eu == ExistsByUsername(rows, b.username[1], fail)
                IN  IF eu.err # ""
                    THEN {Out(500, "Failed to check username availability", rows, nid, TRUE,
                              "db")}
                    ELSE IF eu.exists
                    THEN {Out(409, "Username already exists", rows, nid, TRUE, "")}
                    ELSE UpdateEmail(rows, nid, t, b, [user EXCEPT !.username = b.username[1]])
                : fail \in DbFails}
    ELSE UpdateEmail(rows, nid, t, b, user)

\* ActionUpdateProfile
ActionUpdateProfile(rows, nid, t, ctx, b) ==
    IF ctx = NoCtx THEN {Out(401, "User not authenticated", rows, nid, FALSE, "")}
    ELSE IF ~BindUpdate(b) THEN {Out(400, "Invalid request format", rows, nid, FALSE, "")}
    ELSE IF ValidateUpdate(b) # <<>>
    THEN {[Out(400, "Validation failed", rows, nid, FALSE, "") EXCEPT
               !.details = ValidateUpdate(b)]}
    ELSE UNION {LET got == GetByID(rows, ctx[1].user_id, fail)
                IN  IF got.err # ""
                    THEN {Out(404, "User not found", rows, nid, TRUE, DbFault(fail))}
                    ELSE UpdateUsername(rows, nid, t, b, got.user[1])
                : fail \in DbFails}

S_testuser == <<"t","e","s","t","u","s","e","r">>
S_test == <<"t","e","s","t">>
S_at_test_com == <<"@","t","e","s","t",".","c","o","m">>
TestPassword == <<"T","e","s","t","P","a","s","s","w","o","r","d","1","2","3","!">>

\* generateRandomString; rnd is the base64 text of the random bytes
generateRandomString(length, prefix, rnd) ==
    LET n == IF prefix # <<>> THEN length - Len(prefix) ELSE length
    IN  IF prefix # <<>> /\ n <= 0 THEN prefix
        ELSE prefix \o SubSeq(rnd, 1, n)

\* ActionCreateTestUser; the user is built without a gender, and the hasher
\* is called directly
ActionCreateTestUser(rows, nid, t, rnd1, rnd2) ==
    LET username == generateRandomString(8, S_testuser, rnd1)
        email == generateRandomString(6, S_test, rnd2) \o S_at_test_com
    IN  UNION {IF h.err # "" THEN {Out(500, "Failed to hash password", rows, nid, FALSE, "hash")}
               ELSE UNION {LET c == Create(rows, nid, NewUser(username, email, "", h.hash, t),
                                           fail)
                           IN  IF c.err # ""
                               THEN {Out(500, "Failed to create test user", c.rows, c.nid,
                                         TRUE, DbFault(fail))}
                               ELSE {[Out(201, "", c.rows, c.nid, TRUE, "") EXCEPT
                                          !.user = Some(ToResponse(CHOOSE u \in c.rows :
                                                                       u.id = c.id)),
                                          !.creds = Some([username |-> username,
                                                          password |-> TestPassword])]}
                           : fail \in DbFails}
               : h \in Hashes(TestPassword)}

-----------------------------------------------------------------------------
(* The requests the clients send.  env names the population of clients:     *)
(* "account" sends every kind of body with honest headers, "gate" sends    *)
(* few bodies with every kind of header, "hasher" calls the hasher alone,   *)
(* "profile" is two users who register, log in and change their profiles.  *)

U_ann == <<"a","n","n">>
U_bob == <<"b","o","b">>
U_ab == <<"a","b">>
E_a == <<"a","@","b",".","i","o">>
E_c == <<"c","@","d",".","i","o">>
E_bad == <<"n","o","t","-","a","n","-","e","m","a","i","l">>
P_1 == <<"P","a","s","s","w","0","r","d">>
P_2 == <<"S","e","c","r","3","t","K","y">>
P_weak == <<"a","l","l","l","o","w","e","r","c","a","s","e","1">>
P_1NulP_1 == P_1 \o <<NUL>> \o P_1
G_MALE == <<"M","A","L","E">>

Usernames == {U_ann, U_bob}
Emails == {E_a, E_c}
Passwords == {P_1, P_2}
Genders == {<<>>, S_male}

Body(u, e, g, p) == [username |-> u, email |-> e, gender |-> g, password |-> p]

LoginBodies ==
    IF env = "gate"
    THEN {[email |-> E_a, password |-> P_1], [email |-> E_a, password |-> P_2]}
    ELSE IF env = "profile"
    THEN [email : Emails, password : Passwords \cup {P_1NulP_1}]
    ELSE [email : Emails \cup {E_bad}, password : Passwords]

CreateBodies ==
    IF env = "gate"
    THEN {Body(U_ann, E_a, <<>>, P_1)}
    ELSE IF env = "profile"
    THEN {Body(U_ann, E_a, <<>>, P_1), Body(U_bob, E_c, S_male, P_2)}
    ELSE {Body(U_ann, E_a, <<>>, P_1), Body(U_bob, E_c, S_male, P_2),
          Body(U_ann, E_c, S_male, P_2), Body(U_bob, E_a, <<>>, P_1)}
         \cup {Body(U_ab, E_a, <<>>, P_1), Body(U_ann, E_bad, <<>>, P_1),
               Body(U_ann, E_a, G_MALE, P_1), Body(U_ann, E_a, <<>>, P_weak)}

NoFields == [username |-> None, email |-> None, gender |-> None, password |-> None]

UpdateBodies ==
    IF env = "gate"
    THEN {[NoFields EXCEPT !.username = Some(U_bob)],
          [NoFields EXCEPT !.password = Some(P_2)]}
    ELSE IF env = "profile"
    THEN {NoFields,
          [NoFields EXCEPT !.username = Some(U_bob)],
          [NoFields EXCEPT !.email = Some(E_c)],
          [NoFields EXCEPT !.gender = Some(S_female)],
          [NoFields EXCEPT !.password = Some(P_2)],
          [NoFields EXCEPT !.password = Some(P_1NulP_1)],
          [NoFields EXCEPT !.username = Some(U_ab)]}
    ELSE {NoFields}
         \cup {[NoFields EXCEPT !.username = Some(u)] : u \in Usernames \cup {U_ab}}
         \cup {[NoFields EXCEPT !.email = Some(e)] : e \in Emails \cup {E_bad}}
         \cup {[NoFields EXCEPT !.gender = Some(g)] : g \in {S_male, S_unknown, <<>>}}
         \cup {[NoFields EXCEPT !.password = Some(p)] : p \in Passwords \cup {P_weak}}

\* the random base64 text a call of generateRandomString draws
RandomTexts == {<<"Q","k">>, <<"x","_">>}

AttackerKey == "a-key-that-is-not-the-secret"

NeverIssued ==
    Jwt(MakeClaims(1, U_ann, E_a, 0, TokenTTL),
        Sign(AttackerKey, MakeClaims(1, U_ann, E_a, 0, TokenTTL)))

\* A minted token with a byte of its payload or of its signature changed:
\* another subject or a later expiry under the old signature, or the old
\* payload under another signature.
Tampered(tk) ==
    {Jwt([tk.claims EXCEPT !.user_id = @ + 1], tk.sig),
     Jwt([tk.claims EXCEPT !.exp = @ + TokenTTL], tk.sig),
     Jwt(tk.claims, Sign(AttackerKey, tk.claims))}

\* Tokens of a party that holds the tokens issued so far and any key but the
\* server's
Forged(iss) == {NeverIssued} \cup UNION {Tampered(tk) : tk \in iss}

Bearer(tk) == <<W("Bearer"), Sp, tk>>

\* headers that are not "Bearer <value>", or whose value is no token
BadHeaders(iss) ==
    {<<>>, <<W("Bearer")>>, <<W("Bearer"), Sp>>, <<W("Bearer"), Sp, W("garbage")>>}
    \cup (IF iss = {} THEN {}
          ELSE LET tk == CHOOSE x \in iss : \A y \in iss : x.claims.iat <= y.claims.iat
               IN  {<<W("bearer"), Sp, tk>>, <<W("Bearer"), Sp, Sp, tk>>, <<tk>>})

Headers(iss) ==
    IF env = "gate"
    THEN BadHeaders(iss) \cup {Bearer(tk) : tk \in iss \cup Forged(iss)}
    ELSE {<<>>} \cup {Bearer(tk) : tk \in iss}

\* the clock's last value and the number of tokens the clients hold
TickLimit == IF env = "gate" THEN MaxTicks ELSE MaxTicks - 1
TokenLimit == IF env = "gate" THEN MaxTokens ELSE MaxTokens - 1
IdLimit == IF env = "profile" THEN MaxId + 1 ELSE MaxId

ProtectedRoutes == {"user-profile", "update-user-profile", "user-logout", "refresh-auth-token"}

-----------------------------------------------------------------------------
(* The server: one action per route, the middleware of a protected route    *)
(* included.  req, resp and trace describe the request handled last.       *)

Idle == [route |-> "", header |-> <<>>, body |-> <<>>]
NoResp == [status |-> 0, error |-> "", details |-> <<>>, token |-> None, user |-> None,
           list |-> {}, creds |-> None]
NoTrace == [gate |-> "", tokErr |-> "", ctx |-> NoCtx, handler |-> FALSE, reads |-> FALSE,
            fault |-> ""]
HpIdle == [op |-> "", p |-> <<>>, q |-> <<>>, out |-> [err |-> "", cause |-> "", hash |-> <<>>],
           check |-> ""]
VpIdle == [fn |-> "", arg |-> <<>>, out |-> ""]
Procs == 1..MaxProcs
ProcIdle == [pc |-> "idle", n |-> 0, kind |-> "", uid |-> 0, body |-> <<>>, user |-> None,
             held |-> FALSE, status |-> 0, error |-> ""]

InitState ==
    /\ users = {}
    /\ nextId = 1
    /\ now = 0
    /\ issued = {}
    /\ req = Idle
    /\ resp = NoResp
    /\ trace = NoTrace
    /\ prev = {}
    /\ hp = HpIdle
    /\ vp = VpIdle
    /\ procs = [p \in Procs |-> ProcIdle]

Init == InitState /\ env = "account"
InitGate == InitState /\ env = "gate"

RespOf(o) ==
    [status |-> o.status, error |-> o.error, details |-> o.details, token |-> o.token,
     user |-> o.user, list |-> o.list, creds |-> o.creds]

\* the handler of route ran (for a protected route: after c.Next()) and gave o
Handled(route, header, body, gate, ctx, o) ==
    /\ o.nid <= IdLimit + 1
    /\ users' = o.rows
    /\ nextId' = o.nid
    /\ issued' = issued \cup {o.token[i] : i \in 1..Len(o.token)}
    /\ Cardinality(issued') <= TokenLimit
    /\ req' = [route |-> route, header |-> header, body |-> body]
    /\ resp' = RespOf(o)
    /\ trace' = [gate |-> gate, tokErr |-> "", ctx |-> ctx, handler |-> TRUE,
                 reads |-> o.reads, fault |-> o.fault]
    /\ prev' = users
    /\ UNCHANGED <<now, hp, vp, procs, env>>

\* the middleware answered and called c.Abort(); the body was not read
Aborted(route, header, g) ==
    /\ req' = [route |-> route, header |-> header, body |-> <<>>]
    /\ resp' = [NoResp EXCEPT !.status = g.status, !.error = g.error]
    /\ trace' = [gate |-> "abort", tokErr |-> g.tokErr, ctx |-> g.ctx, handler |-> FALSE,
                 reads |-> FALSE, fault |-> ""]
    /\ prev' = users
    /\ UNCHANGED <<users, nextId, issued, now, hp, vp, procs, env>>

\* time passes; the request handled last is no longer the last thing that happened
Tick ==
    /\ now < TickLimit * TokenTTL
    /\ now' = now + TokenTTL
    /\ req' = Idle /\ resp' = NoResp /\ trace' = NoTrace /\ prev' = users
    /\ UNCHANGED <<users, nextId, issued, hp, vp, procs, env>>

Register ==
    \E b \in CreateBodies : \E o \in ActionCreateUser(users, nextId, now, b) :
        Handled("user-register", <<>>, b, "", NoCtx, o)

CreateTestUser ==
    \E rnd1 \in RandomTexts, rnd2 \in RandomTexts :
        \E o \in ActionCreateTestUser(users, nextId, now, rnd1, rnd2) :
            Handled("create-test-user", <<>>, <<>>, "", NoCtx, o)

ListUsers ==
    \E o \in ActionListUsers(users, nextId) :
        Handled("list-users", <<>>, <<>>, "", NoCtx, o)

Login ==
    \E b \in LoginBodies : \E o \in ActionLogin(users, nextId, now, b) :
        Handled("user-login", <<>>, b, "", NoCtx, o)

GetProfile ==
    \E hd \in Headers(issued) :
        LET g == AuthMiddleware(hd, now)
        IN  IF g.next
            THEN \E o \in ActionGetProfile(users, nextId, g.ctx) :
                     Handled("user-profile", hd, <<>>, "pass", g.ctx, o)
            ELSE Aborted("user-profile", hd, g)

UpdateProfile ==
    \E hd \in Headers(issued) :
        LET g == AuthMiddleware(hd, now)
        IN  IF g.next
            THEN \E b \in UpdateBodies :
                 \E o \in ActionUpdateProfile(users, nextId, now, g.ctx, b) :
                     Handled("update-user-profile", hd, b, "pass", g.ctx, o)
            ELSE Aborted("update-user-profile", hd, g)

Logout ==
    \E hd \in Headers(issued) :
        LET g == AuthMiddleware(hd, now)
        IN  IF g.next
            THEN \E o \in ActionLogout(users, nextId) :
                     Handled("user-logout", hd, <<>>, "pass", g.ctx, o)
            ELSE Aborted("user-logout", hd, g)

RefreshToken ==
    \E hd \in Headers(issued) :
        LET g == AuthMiddleware(hd, now)
        IN  IF g.next
            THEN \E o \in ActionRefreshToken(users, nextId, now, g.ctx) :
                     Handled("refresh-auth-token", hd, <<>>, "pass", g.ctx, o)
            ELSE Aborted("refresh-auth-token", hd, g)

Next ==
    \/ Tick
    \/ Register
    \/ CreateTestUser
    \/ ListUsers
    \/ Login
    \/ GetProfile
    \/ UpdateProfile
    \/ Logout
    \/ RefreshToken

\* every kind of body, honest headers
Spec == Init /\ [][Next]_vars

\* few bodies, every kind of header
SpecGate == InitGate /\ [][Next]_vars

\* two users who register, log in and change their profiles and passwords
InitProfile == InitState /\ env = "profile"

NextProfile ==
    \/ Tick
    \/ Register
    \/ Login
    \/ UpdateProfile

SpecProfile == InitProfile /\ [][NextProfile]_vars

-----------------------------------------------------------------------------
(* The hasher alone: calls of HashPassword and of CheckPassword on the     *)
(* hash of a password, as the handlers make them.                          *)

P_72 == Rep("x", BcryptKeyBytes)
P_73a == Append(P_72, "a")
P_73b == Append(P_72, "b")
P_A == <<"A">>
P_ANulA == <<"A", NUL, "A">>

HasherPasswords == {<<>>, P_1, P_2, P_weak, P_72, P_73a, P_73b, P_A, P_ANulA}

InitHasher == InitState /\ env = "hasher"

\* hash, err := HashPassword(p)
Hash ==
    \E p \in HasherPasswords : \E o \in Hashes(p) :
        /\ hp' = [op |-> "hash", p |-> p, q |-> <<>>, out |-> o, check |-> ""]
        /\ UNCHANGED <<users, nextId, now, issued, req, resp, trace, prev, vp, procs, env>>

\* hash, _ := HashPassword(q); err := CheckPassword(p, hash)
Check ==
    \E p \in HasherPasswords, q \in HasherPasswords :
        \E o \in Hashes(q) :
            /\ o.err = ""
            /\ hp' = [op |-> "check", p |-> p, q |-> q, out |-> o,
                      check |-> CheckPassword(p, o.hash)]
            /\ UNCHANGED <<users, nextId, now, issued, req, resp, trace, prev, vp, procs, env>>

NextHasher == Hash \/ Check

SpecHasher == InitHasher /\ [][NextHasher]_vars

-----------------------------------------------------------------------------
(* The validators of model/types.go alone: each is called on inputs drawn   *)
(* from the texts below.                                                   *)

\* every text of at most n characters of the alphabet
Texts(alphabet, n) == UNION {[1..k -> alphabet] : k \in 0..n}

UsernameInputs ==
    Texts({"a", "Z", "9", "_", "-", "!", "U+00E9"}, MaxText)
    \cup {Rep("a", UsernameMaxLength - 1), Rep("a", UsernameMaxLength),
          Rep("a", UsernameMaxLength + 1),
          Append(Rep("a", UsernameMaxLength - 1), "!"),
          Append(Rep("a", UsernameMaxLength), "!"),
          Rep("U+00E9", 25), Rep("U+00E9", 26), U_ab}

EmailInputs ==
    {<<>>, <<"n","o","t","-","a","n","-","e","m","a","i","l">>, <<"a","@","b",".","i","o">>,
     <<"a",".","b","@","c","-","d",".","i","o">>,
     <<"a","_","%","+","-","@","b",".","c",".","i","o">>, <<"a","@","b",".",".","i","o">>,
     <<"a","@",".","b",".","i","o">>, <<"a","@","b",".","i","o",".">>,
     <<"a","@",".","i","o">>, <<"a","@","b">>, <<"a","@","b",".","i">>,
     <<"a","@","b",".","i","0">>, <<"a","@","b",".","I","O">>, <<"@","b",".","i","o">>,
     <<"a","@","@","b",".","i","o">>, <<"a","@","b","@","c",".","i","o">>,
     <<"a","!","@","b",".","i","o">>, <<"a","@","b","_","c",".","i","o">>,
     <<"a"," ","b","@","c",".","i","o">>, <<"a","@","-","b",".","i","o">>,
     <<"U+00E9","@","b",".","i","o">>, <<"a","@","b",".","c","o","m">>,
     <<".",".","@","b",".","i","o">>, <<"a","@","b","-",".","i","o">>}
    \cup {Rep("a", EmailMaxLength - 5) \o E_a, Rep("a", EmailMaxLength - 4) \o E_a,
          Rep("a", EmailMaxLength - 11) \o E_bad, Rep("a", EmailMaxLength - 10) \o E_bad,
          Rep("a", EmailMaxLength + 1)}

GenderInputs ==
    {<<>>, <<"m","a","l","e">>, <<"f","e","m","a","l","e">>, <<"u","n","k","n","o","w","n">>,
     <<"M","A","L","E">>, <<"F","e","m","a","l","e">>, <<"U","N","K","N","O","W","N">>,
     <<"u","N","k","N","o","W","n">>, <<"x","y","z">>, <<"o","t","h","e","r">>, <<"m">>,
     <<"m","a","l","e","s">>, <<"m","a","l">>}

\* five characters of no class, then every text of the alphabet
PasswordInputs ==
    {Rep("!", PasswordMinLength - MaxText) \o x : x \in Texts({"a", "Z", "9", "!"}, MaxText)}
    \cup {P_1, P_2, P_weak, <<>>, TestPassword, Rep("U+00E9", 4),
          <<"A", "a", "1">> \o Rep("U+00E9", 3), <<"A", "a", "1">> \o Rep("U+00E9", 2)}

P_short == <<"A","a","1">>
S_xyz == <<"x","y","z">>

CreateInputs ==
    {Body(u, e, g, pw) : u \in {U_ann, U_ab}, e \in {E_a, E_bad},
                         g \in {<<>>, S_male, G_MALE, S_xyz}, pw \in {P_1, P_weak, P_short}}

UpdateInputs ==
    [username : {None, Some(U_bob), Some(U_ab), Some(<<>>)},
     email : {None, Some(E_c), Some(E_bad), Some(<<>>)},
     gender : {None, Some(S_male), Some(S_xyz), Some(<<>>)},
     password : {None, Some(P_2), Some(P_weak), Some(<<>>)}]

InitValidator == InitState /\ env = "validator"

Validated(fn, arg, out) ==
    /\ vp' = [fn |-> fn, arg |-> arg, out |-> out]
    /\ UNCHANGED <<users, nextId, now, issued, req, resp, trace, prev, hp, procs, env>>

CallValidateUsername ==
    \E x \in UsernameInputs : Validated("validateUsername", x, validateUsername(x))

CallValidateEmail ==
    \E x \in EmailInputs : Validated("validateEmail", x, validateEmail(x))

CallValidateGender ==
    \E x \in GenderInputs : Validated("validateGender", x, validateGender(x))

CallValidatePassword ==
    \E x \in PasswordInputs : Validated("validatePassword", x, validatePassword(x))

CallValidateCreate ==
    \E r \in CreateInputs : Validated("UserCreateRequest.Validate", r, ValidateCreate(r))

CallValidateUpdate ==
    \E r \in UpdateInputs : Validated("UserUpdateRequest.Validate", r, ValidateUpdate(r))

NextValidator ==
    \/ CallValidateUsername
    \/ CallValidateEmail
    \/ CallValidateGender
    \/ CallValidatePassword
    \/ CallValidateCreate
    \/ CallValidateUpdate

SpecValidator == InitValidator /\ [][NextValidator]_vars

-----------------------------------------------------------------------------
(* Requests handled concurrently.  The server runs each request in its own  *)
(* goroutine and the handlers hold no lock and open no transaction, so the  *)
(* database calls of different requests interleave: each action below takes *)
(* one request to just after its next database call.  The requests are      *)
(* well-formed, authenticated where needed, and nothing fails.             *)

RaceCreateBodies ==
    {Body(U_ann, E_a, <<>>, P_1), Body(U_ann, E_c, S_male, P_1), Body(U_bob, E_a, <<>>, P_1)}

RaceUpdateBodies ==
    {[NoFields EXCEPT !.username = Some(U_bob)],
     [NoFields EXCEPT !.email = Some(E_c)],
     [NoFields EXCEPT !.gender = Some(S_male)]}

InitRace == InitState /\ env = "race"

\* the request of p moves on; the table changes only where a call writes
Moved(p, pr, rows, nid) ==
    /\ procs' = [procs EXCEPT ![p] = pr]
    /\ users' = rows
    /\ nextId' = nid
    /\ UNCHANGED <<now, issued, req, resp, trace, prev, hp, vp, env>>

Answered(pr, status, error) ==
    [pr EXCEPT !.pc = "done", !.status = status, !.error = error]

\* ActionUpdateProfile: the call that follows the username step
AfterUsername(b, user) ==
    IF b.email # None /\ b.email[1] # user.email THEN "existsEmail" ELSE "save"

\* ActionUpdateProfile: the call that follows GetByID
AfterGet(b, user) ==
    IF b.username # None /\ b.username[1] # user.username THEN "existsUsername"
    ELSE AfterUsername(b, user)

\* a request arrives: bound, validated, and taken up to its first database call
Begin(p) ==
    /\ procs[p].pc \in {"idle", "done"}
    /\ procs[p].n < MaxReqs
    /\ LET fresh == [ProcIdle EXCEPT !.n = procs[p].n + 1]
       IN  \/ \E b \in RaceCreateBodies :
                  IF BindCreate(b) /\ ValidateCreate(b) = <<>>
                  THEN Moved(p, [fresh EXCEPT !.pc = "existsUsername",
                                              !.kind = "user-register", !.body = b],
                             users, nextId)
                  ELSE FALSE
           \/ \E rnd \in RandomTexts : \E h \in Hashes(TestPassword) :
                  /\ h.err = ""
                  /\ Moved(p, [fresh EXCEPT
                                   !.pc = "save", !.kind = "create-test-user",
                                   !.user = Some(NewUser(generateRandomString(8, S_testuser, rnd),
                                                         generateRandomString(6, S_test, rnd)
                                                             \o S_at_test_com,
                                                         "", h.hash, now))],
                           users, nextId)
           \/ \E u \in users : \E b \in RaceUpdateBodies :
                  IF BindUpdate(b) /\ ValidateUpdate(b) = <<>>
                  THEN Moved(p, [fresh EXCEPT !.pc = "getById",
                                              !.kind = "update-user-profile",
                                              !.body = b, !.uid = u.id],
                             users, nextId)
                  ELSE FALSE

\* ActionUpdateProfile: userRepo.GetByID of the token's subject
StepGetByID(p) ==
    /\ procs[p].pc = "getById"
    /\ LET pr == procs[p]
           got == GetByID(users, pr.uid, FALSE)
       IN  IF got.err # ""
           THEN Moved(p, Answered(pr, 404, "User not found"), users, nextId)
           ELSE Moved(p, [pr EXCEPT !.pc = AfterGet(pr.body, got.user[1]), !.user = got.user],
                      users, nextId)

\* ActionCreateUser, ActionUpdateProfile: userRepo.ExistsByUsername
StepExistsByUsername(p) ==
    /\ procs[p].pc = "existsUsername"
    /\ LET pr == procs[p]
           name == IF pr.kind = "user-register" THEN pr.body.username
                   ELSE pr.body.username[1]
           eu == ExistsByUsername(users, name, FALSE)
       IN  IF eu.exists
           THEN Moved(p, [Answered(pr, 409, "Username already exists") EXCEPT !.held = TRUE],
                      users, nextId)
           ELSE IF pr.kind = "user-register"
           THEN Moved(p, [pr EXCEPT !.pc = "existsEmail"], users, nextId)
           ELSE Moved(p, [pr EXCEPT !.pc = AfterUsername(pr.body, pr.user[1]),
                                    !.user = Some([pr.user[1] EXCEPT !.username = name])],
                      users, nextId)

\* ActionCreateUser, ActionUpdateProfile: userRepo.ExistsByEmail
StepExistsByEmail(p) ==
    /\ procs[p].pc = "existsEmail"
    /\ LET pr == procs[p]
           email == IF pr.kind = "user-register" THEN pr.body.email ELSE pr.body.email[1]
           ee == ExistsByEmail(users, email, FALSE)
       IN  IF ee.exists
           THEN Moved(p, [Answered(pr, 409, "Email already exists") EXCEPT !.held = TRUE],
                      users, nextId)
           ELSE IF pr.kind = "user-register"
           THEN Moved(p, [pr EXCEPT !.pc = "save"], users, nextId)
           ELSE Moved(p, [pr EXCEPT !.pc = "save",
                                    !.user = Some([pr.user[1] EXCEPT !.email = email])],
                      users, nextId)

\* ActionCreateUser, ActionCreateTestUser: the password is hashed, the user
\* built and userRepo.Create called
StepCreate(p) ==
    /\ procs[p].pc = "save"
    /\ procs[p].kind \in {"user-register", "create-test-user"}
    /\ LET pr == procs[p]
           test == pr.kind = "create-test-user"
       IN  \E h \in Hashes(IF test THEN TestPassword ELSE pr.body.password) :
               /\ h.err = ""
               /\ LET user == IF test THEN pr.user[1]
                              ELSE NewUser(pr.body.username, pr.body.email,
                                           ParseGender(pr.body.gender), h.hash, now)
                      c == Create(users, nextId, user, FALSE)
                  IN  IF c.err # ""
                      THEN Moved(p, [Answered(pr, 500, IF test THEN "Failed to create test user"
                                                       ELSE "Failed to create user")
                                        EXCEPT !.held = ~UniqueOk(users, user)],
                                 c.rows, c.nid)
                      ELSE Moved(p, [Answered(pr, 201, "") EXCEPT
                                        !.user = Some(CHOOSE u \in c.rows : u.id = c.id)],
                                 c.rows, c.nid)

\* ActionUpdateProfile: gender and password are set in the struct and
\* userRepo.Update is called
StepUpdate(p) ==
    /\ procs[p].pc = "save"
    /\ procs[p].kind = "update-user-profile"
    /\ LET pr == procs[p]
           b == pr.body
           u3 == IF b.gender # None THEN [pr.user[1] EXCEPT !.gender = ParseGender(b.gender[1])]
                 ELSE pr.user[1]
       IN  \E h \in Hashes(IF b.password # None THEN b.password[1] ELSE <<>>) :
               /\ h.err = ""
               /\ LET u4 == IF b.password # None THEN [u3 EXCEPT !.password_hash = h.hash]
                            ELSE u3
                      u5 == [u4 EXCEPT !.updated_at = now]
                      up == Update(users, u5, now, FALSE)
                  IN  IF up.err # ""
                      THEN Moved(p, [Answered(pr, 500, "Failed to update user")
                                        EXCEPT !.held = ~UniqueOk(users, u5)],
                                 up.rows, nextId)
                      ELSE Moved(p, [Answered(pr, 200, "") EXCEPT !.user = Some(u5)],
                                 up.rows, nextId)

NextRace ==
    \E p \in Procs :
        \/ Begin(p)
        \/ StepGetByID(p)
        \/ StepExistsByUsername(p)
        \/ StepExistsByEmail(p)
        \/ StepCreate(p)
        \/ StepUpdate(p)

SpecRace == InitRace /\ [][NextRace]_vars

-----------------------------------------------------------------------------
(* Properties *)

\* C1: on a protected route the handler runs only if the bearer token of that
\* same request carries the server's signature and has not expired, and then
\* the context holds the user_id, username and email of that token's claims;
\* otherwise the request is answered 401 and aborted: no handler runs and no
\* stored user is read or changed.
C1_GateGuardsHandlers ==
    req.route \in ProtectedRoutes =>
        LET h == req.header
            bearer == /\ Len(h) = 3
                      /\ h[1].k = "w" /\ h[1].s = "Bearer"
                      /\ h[2].k = "sp"
                      /\ h[3].k = "jwt"
            verified == /\ bearer
                        /\ h[3].sig = Sign(JWTSecret, h[3].claims)
                        /\ now <= h[3].claims.exp
        IN  /\ trace.handler =>
                /\ verified
                /\ trace.gate = "pass"
                /\ trace.ctx = Some([user_id |-> h[3].claims.user_id,
                                     username |-> h[3].claims.username,
                                     email |-> h[3].claims.email])
            /\ ~verified =>
                /\ resp.status = 401
                /\ trace.gate = "abort"
                /\ ~trace.handler
                /\ ~trace.reads
                /\ users = prev

C1_Witness ==
    /\ req.route = "update-user-profile"
    /\ trace.handler
    /\ trace.ctx # NoCtx
    /\ resp.status = 200
    /\ users # prev

\* C2: user-login returns a token only when a stored user has the submitted
\* email and the submitted password verifies against that user's stored hash;
\* the token's user_id, username and email are that user's stored id, username
\* and email; every other outcome of user-login carries no token.
C2_LoginTokenOnlyOnMatch ==
    req.route = "user-login" =>
        /\ resp.token # None =>
               \E u \in users :
                   /\ u.email = req.body.email
                   /\ CompareHashAndPassword(u.password_hash, req.body.password) = ""
                   /\ resp.token[1].claims.user_id = u.id
                   /\ resp.token[1].claims.username = u.username
                   /\ resp.token[1].claims.email = u.email
        /\ resp.status # 200 => resp.token = None

C2_Witness ==
    /\ req.route = "user-login"
    /\ resp.status = 200
    /\ resp.token # None

\* C3: a token issued at time n has iat = n and exp = n + ttl with exp > iat;
\* it verifies when issued and at every time up to and including exp, fails
\* with Expired at every time after exp, and once expired stays expired.
C3_TokenLifetime ==
    [][/\ now' >= now
       /\ resp'.token # None =>
              /\ resp'.token[1].claims.iat = now'
              /\ ValidateToken(resp'.token, now').err = ""
       /\ \A tk \in issued' :
              /\ tk.claims.exp = tk.claims.iat + JWTExpiration * Hour
              /\ tk.claims.exp > tk.claims.iat
              /\ now' <= tk.claims.exp => ValidateToken(<<tk>>, now').err = ""
              /\ now' > tk.claims.exp => ValidateToken(<<tk>>, now').err = "Expired"
       /\ \A tk \in issued :
              ValidateToken(<<tk>>, now).err = "Expired"
                  => ValidateToken(<<tk>>, now').err = "Expired"]_vars

C3_Witness ==
    \E tk \in issued :
        /\ tk.claims.iat = 0
        /\ now > tk.claims.exp
        /\ req.route = "user-profile"
        /\ req.header = Bearer(tk)
        /\ trace.tokErr = "Expired"

C5_LoginDoesNotTellEmails ==
    /\ (/\ req.route = "user-login"
        /\ BindLogin(req.body)
        /\ \/ \A u \in users : u.email # req.body.email
           \/ \E u \in users :
                  /\ u.email = req.body.email
                  /\ CompareHashAndPassword(u.password_hash, req.body.password) # "")
       => resp = [NoResp EXCEPT !.status = 401, !.error = "Invalid email or password"]
    /\ \A u \in users : \A p \in Passwords \cup {P_weak, <<>>} :
           /\ CheckPassword(p, u.password_hash) \in {"", "invalid password"}
           /\ CheckPassword(p, SubSeq(u.password_hash, 1, 3)) = "invalid password"

C5_Witness ==
    /\ req.route = "user-login"
    /\ \E u \in users :
           /\ u.email = req.body.email
           /\ CompareHashAndPassword(u.password_hash, req.body.password) # ""
    /\ resp.status = 401
    /\ trace.fault = ""

\* C6: for every password p HashPassword(p) succeeds and CheckPassword of p
\* against that hash succeeds; for every password q different from p
\* CheckPassword of p against the hash of q gives an error.
C6_HashCheckRoundTrip ==
    /\ hp.op = "hash" => hp.out.err = ""
    /\ hp.op = "check" => (hp.check = "" <=> hp.p = hp.q)

\* C7: nothing revokes or changes an issued token: whatever request is
\* handled, every token issued before stays issued and passes the gate, with
\* its own claims, at every time up to its exp; user-logout changes no state;
\* a refresh adds a token and leaves the presented one as it was.
C7_NoRevocation ==
    [][/\ \A tk \in issued :
              /\ tk \in issued'
              /\ now' <= tk.claims.exp =>
                     /\ AuthMiddleware(Bearer(tk), now').next
                     /\ AuthMiddleware(Bearer(tk), now').ctx = Ctx(tk.claims)
       /\ req'.route = "user-logout" =>
              /\ users' = users
              /\ nextId' = nextId
              /\ issued' = issued
              /\ now' = now
       /\ (req'.route = "refresh-auth-token" /\ resp'.status = 200) =>
              /\ resp'.token # None
              /\ issued' = issued \cup {resp'.token[1]}
              /\ req'.header[3] \in issued']_vars

C7_Witness ==
    /\ req.route = "user-logout"
    /\ resp.status = 200
    /\ users # {}
    /\ \E tk \in issued :
           /\ req.header = Bearer(tk)
           /\ \E u \in users : u.id = tk.claims.user_id /\ u.username # tk.claims.username

C9_HashStoredNeverShown ==
    /\ \A u \in users :
           /\ IsBcryptString(u.password_hash)
           /\ \E p \in Passwords \cup {TestPassword} :
                  /\ CompareHashAndPassword(u.password_hash, p) = ""
                  /\ u.password_hash # p
    /\ \A i \in 1..Len(resp.user) : "password_hash" \notin DOMAIN resp.user[i]
    /\ \A v \in resp.list : "password_hash" \notin DOMAIN v
    /\ \A i \in 1..Len(resp.creds) : "password_hash" \notin DOMAIN resp.creds[i]
    /\ \A i \in 1..Len(resp.token) : "password_hash" \notin DOMAIN resp.token[i].claims

C9_Witness ==
    /\ req.route = "user-register"
    /\ resp.status = 201
    /\ resp.user # None
    /\ \E u \in users : u.id = resp.user[1].id

\* C10: the gate rejects in this order: an empty Authorization header gets
\* "Authorization header is required"; a header that, split at its first
\* space, is not the scheme "Bearer" and a value gets "Invalid authorization
\* header format"; a value that fails verification, for whatever reason, gets
\* "Invalid or expired token"; each with status 401, the three messages
\* different.
C10_GateRejectionOrder ==
    req.route \in ProtectedRoutes =>
        LET h == req.header
            shape == /\ Len(h) >= 2
                     /\ h[1].k = "w" /\ h[1].s = "Bearer"
                     /\ h[2].k = "sp"
            value == SubSeq(h, 3, Len(h))
            rejected(msg) == /\ resp.status = 401
                             /\ resp.error = msg
                             /\ trace.gate = "abort"
        IN  /\ h = <<>> => rejected("Authorization header is required")
            /\ (h # <<>> /\ ~shape) => rejected("Invalid authorization header format")
            /\ (shape /\ ValidateToken(value, now).err # "") =>
                   /\ rejected("Invalid or expired token")
                   /\ trace.tokErr \in {"Malformed", "InvalidSignature", "Expired"}
            /\ (shape /\ ValidateToken(value, now).err = "") => trace.gate = "pass"

C10_Witness ==
    /\ req.route = "user-logout"
    /\ trace.tokErr = "Expired"
    /\ resp.status = 401
    /\ resp.error = "Invalid or expired token"

\* C11: when hashing the password fails in user-register or
\* update-user-profile, or signing the token fails in user-login or
\* refresh-auth-token, the answer is 500, not 401, no user is created or
\* changed and no token is returned.
C11_FatalErrorsAre500 ==
    (/\ req.route \in {"user-register", "update-user-profile", "user-login",
                       "refresh-auth-token"}
     /\ trace.fault \in {"hash", "sign"})
    => /\ resp.status = 500
       /\ resp.token = None
       /\ resp.user = None
       /\ users = prev

C11_Witness ==
    /\ req.route = "update-user-profile"
    /\ trace.fault = "hash"
    /\ resp.status = 500
    /\ users # {}

\* C12: validateUsername fails with "too short" when the length in bytes is
\* below 3, else with "too long" when it is above 50, else with the
\* invalid-characters error when a character is outside [A-Za-z0-9_-], and
\* succeeds otherwise; "ab" is too short.
C12_ValidateUsername ==
    vp.fn = "validateUsername" =>
        LET s == vp.arg
            bytes == Len(s) + Cardinality({i \in 1..Len(s) : s[i] = "U+00E9"})
            allowed == Letter \cup Digit \cup {"_", "-"}
        IN  vp.out =
                IF bytes < 3 THEN "username is too short"
                ELSE IF bytes > 50 THEN "username is too long"
                ELSE IF \E i \in 1..Len(s) : s[i] \notin allowed
                THEN "username can only contain alphanumeric characters, underscores, and hyphens"
                ELSE ""

C12_Witness ==
    /\ vp.fn = "validateUsername"
    /\ vp.arg = U_ab
    /\ vp.out = "username is too short"

\* C13: validateEmail fails with "too long" when the length is above 100, else
\* with "invalid format" unless the text is local@domain with a local part of
\* one or more of [A-Za-z0-9._%+-], a domain of labels separated by single
\* dots and a last label of two or more letters; it succeeds otherwise.
C13_ValidateEmail ==
    vp.fn = "validateEmail" =>
        LET s == vp.arg
            bytes == Len(s) + Cardinality({i \in 1..Len(s) : s[i] = "U+00E9"})
            localOk(l) == Len(l) >= 1 /\ \A i \in 1..Len(l) :
                              l[i] \in Letter \cup Digit \cup {".", "_", "%", "+", "-"}
            domainOk(d) ==
                /\ Len(d) >= 1
                /\ \A i \in 1..Len(d) : d[i] \in Letter \cup Digit \cup {".", "-"}
                /\ d[1] # "." /\ d[Len(d)] # "."
                /\ \A i \in 1..(Len(d) - 1) : ~(d[i] = "." /\ d[i + 1] = ".")
                /\ \E j \in 1..Len(d) :
                       /\ d[j] = "."
                       /\ Len(d) - j >= 2
                       /\ \A i \in (j + 1)..Len(d) : d[i] \in Letter
            formOk == \E i \in 1..Len(s) :
                          /\ s[i] = "@"
                          /\ localOk(SubSeq(s, 1, i - 1))
                          /\ domainOk(SubSeq(s, i + 1, Len(s)))
        IN  vp.out = IF bytes > 100 THEN "email is too long"
                     ELSE IF ~formOk THEN "invalid email format"
                     ELSE ""

\* C14: validateGender succeeds for the empty text and for every text that is
\* male, female or unknown up to letter case, and fails with "must be one of"
\* for every other text.
C14_ValidateGender ==
    vp.fn = "validateGender" =>
        vp.out = IF vp.arg = <<>> \/ ToLower(vp.arg) \in {S_male, S_female, S_unknown}
                 THEN ""
                 ELSE "gender must be one of: male, female, unknown"

C16_ValidateOrder ==
    LET first(e) ==
            LET pre == <<"username validation failed", "email validation failed",
                         "gender validation failed", "password validation failed">>
                bad == {i \in 1..4 : e[i] # ""}
            IN  IF bad = {} THEN <<>>
                ELSE LET i == CHOOSE k \in bad : \A m \in bad : k <= m
                     IN  <<pre[i], e[i]>>
        r == vp.arg
    IN  /\ vp.fn = "UserCreateRequest.Validate" =>
               vp.out = first(<<validateUsername(r.username), validateEmail(r.email),
                                validateGender(r.gender), validatePassword(r.password)>>)
        /\ vp.fn = "UserUpdateRequest.Validate" =>
               /\ vp.out = first(<<IF r.username = None THEN ""
                                   ELSE validateUsername(r.username[1]),
                                   IF r.email = None THEN "" ELSE validateEmail(r.email[1]),
                                   IF r.gender = None THEN "" ELSE validateGender(r.gender[1]),
                                   IF r.password = None THEN ""
                                   ELSE validatePassword(r.password[1])>>)
               /\ r = NoFields => vp.out = <<>>

C16_Witness ==
    /\ vp.fn = "UserUpdateRequest.Validate"
    /\ vp.arg.username = None
    /\ vp.arg.email = Some(E_bad)
    /\ vp.arg.password = Some(P_weak)
    /\ vp.out = <<"email validation failed", "invalid email format">>

\* C17: the gender of every stored user is male, female or unknown; an
\* empty or unrecognized gender in a request is not an error and is stored as
\* unknown, and male and female are recognized in any letter case.
C17_GenderClosedEnum ==
    /\ \A u \in users : u.gender \in {GenderMale, GenderFemale, GenderUnknown}
    /\ (/\ req.route = "user-register"
        /\ BindCreate([req.body EXCEPT !.gender = <<>>])
        /\ ValidateCreate([req.body EXCEPT !.gender = <<>>]) = <<>>)
       => /\ resp.status # 400
          /\ resp.status = 201 =>
                 \E u \in users : /\ u.id = resp.user[1].id
                                  /\ u.gender = ParseGender(req.body.gender)
    /\ (/\ req.route = "create-test-user"
        /\ trace.fault = ""
        /\ \A u \in prev : u.username # S_testuser)
       => /\ resp.status = 201
          /\ \E u \in users : u.id = resp.user[1].id /\ u.gender = GenderUnknown

\* C18: user-register validates, then checks the username, then the email,
\* then hashes, then inserts.  Answered 201 it has added exactly one user, with
\* the request's username and email, gender ParseGender of the request's
\* gender, a hash that verifies the request's password and a new id; answered
\* otherwise (400, 409, 500) it has left the stored users as they were.
C18_RegisterStepsAndEffect ==
    req.route = "user-register" =>
        LET b == req.body
            valid == BindCreate(b) /\ ValidateCreate(b) = <<>>
            nameTaken == \E u \in prev : u.username = b.username
            emailTaken == \E u \in prev : u.email = b.email
        IN  /\ resp.status \in {201, 400, 409, 500}
            /\ resp.status = 400 <=> ~valid
            /\ resp.error = "Username already exists" => resp.status = 409 /\ nameTaken
            /\ (valid /\ nameTaken) =>
                   resp.error \in {"Username already exists",
                                   "Failed to check username availability"}
            /\ resp.error = "Email already exists" => resp.status = 409 /\ emailTaken
            /\ (valid /\ ~nameTaken /\ emailTaken) =>
                   resp.error \in {"Email already exists",
                                   "Failed to check username availability",
                                   "Failed to check email availability"}
            /\ resp.error \in {"Failed to hash password", "Failed to create user"} =>
                   resp.status = 500 /\ valid /\ ~nameTaken /\ ~emailTaken
            /\ resp.status = 201 =>
                   /\ valid /\ ~nameTaken /\ ~emailTaken
                   /\ \E u \in users :
                          /\ u \notin prev
                          /\ users = prev \cup {u}
                          /\ \A v \in prev : v.id # u.id
                          /\ u.username = b.username
                          /\ u.email = b.email
                          /\ u.gender = ParseGender(b.gender)
                          /\ CompareHashAndPassword(u.password_hash, b.password) = ""
                          /\ resp.user = Some(ToResponse(u))
            /\ resp.status # 201 => users = prev

C18_Witness ==
    /\ req.route = "user-register"
    /\ resp.status = 201
    /\ users # prev

\* C19: under any interleaving of concurrent user-register, create-test-user
\* and update-user-profile requests, no two stored users have the same
\* username and no two stored users have the same email.
C19_UniqueUsernameAndEmail ==
    \A u \in users : \A v \in users :
        u # v => /\ u.id # v.id
                 /\ u.username # v.username
                 /\ u.email # v.email

\* two users are stored and a write that raced past its existence check has
\* been refused by the table
C19_Witness ==
    /\ Cardinality(users) >= 2
    /\ \E p \in Procs : /\ procs[p].pc = "done"
                         /\ procs[p].held
                         /\ procs[p].status = 500

\* C20: a user-register or update-user-profile request asking for a username
\* or email held by another stored user is answered 409 with "Username
\* already exists" or "Email already exists" and never 500, also when the
\* other user was stored between the request's check and its own write.
C20_TakenNameIs409 ==
    \A p \in Procs :
        (/\ procs[p].pc = "done"
         /\ procs[p].kind \in {"user-register", "update-user-profile"}
         /\ procs[p].held)
        => /\ procs[p].status = 409
           /\ procs[p].error \in {"Username already exists", "Email already exists"}

C22_NoLostUpdate ==
    \A p \in Procs : \A q \in Procs :
        (/\ p # q
         /\ procs[p].pc = "done" /\ procs[q].pc = "done"
         /\ procs[p].kind = "update-user-profile" /\ procs[q].kind = "update-user-profile"
         /\ procs[p].status = 200 /\ procs[q].status = 200
         /\ procs[p].uid = procs[q].uid
         /\ procs[p].body.gender # None
         /\ procs[q].body.gender = None)
        => \E u \in users :
               /\ u.id = procs[p].uid
               /\ u.gender = ParseGender(procs[p].body.gender[1])
               /\ procs[q].body.username # None => u.username = procs[q].body.username[1]
               /\ procs[q].body.email # None => u.email = procs[q].body.email[1]

\* C23: the passwordHash is set at creation and replaced as a whole by a
\* password change.  After an update-user-profile request carrying password p2
\* is answered 200, the user's hash accepts p2 and no longer accepts a
\* previous password p1 different from p2, and user-login with the user's
\* email answers 200 for a password the hash accepts and 401 for any other;
\* an update that carries no password, and every other request, leaves the
\* hash of every stored user as it was.
C23_PasswordReplaced ==
    /\ (req.route = "update-user-profile" /\ resp.status = 200 /\ req.body.password # None)
       => \A old \in prev : \A u \in users :
              (u.id = trace.ctx[1].user_id /\ old.id = u.id) =>
                  /\ CheckPassword(req.body.password[1], u.password_hash) = ""
                  /\ \A p1 \in Passwords \cup {P_1NulP_1} :
                         (/\ p1 # req.body.password[1]
                          /\ CheckPassword(p1, old.password_hash) = "")
                         => CheckPassword(p1, u.password_hash) # ""
    /\ (req.route = "user-login" /\ trace.handler /\ trace.fault = "")
       => \A u \in users :
              u.email = req.body.email =>
                  /\ resp.status \in {200, 401}
                  /\ resp.status = 200 <=> CheckPassword(req.body.password, u.password_hash) = ""
    /\ ~(req.route = "update-user-profile" /\ resp.status = 200 /\ req.body.password # None)
       => \A old \in prev : \E u \in users :
              u.id = old.id /\ u.password_hash = old.password_hash

\* C24: user-login answers 401 only for bad credentials, that is when no
\* stored user has the submitted email or the submitted password does not
\* match; a failure of the storage lookup is not answered with 401.
C24_Login401OnlyBadCredentials ==
    (req.route = "user-login" /\ resp.status = 401) =>
        /\ trace.fault = ""
        /\ \/ \A u \in prev : u.email # req.body.email
           \/ \E u \in prev : /\ u.email = req.body.email
                               /\ CheckPassword(req.body.password, u.password_hash) # ""

\* C25: every call of create-test-user is answered 201 and stores one new
\* user whose username is 8 characters beginning with "testuser" and whose
\* email is freshly generated, so a call is not rejected because of the user
\* an earlier call stored.
C25_TestUserEachCall ==
    (req.route = "create-test-user" /\ trace.fault = "") =>
        /\ resp.status = 201
        /\ \E u \in users :
               /\ \A v \in prev : v.id # u.id
               /\ users = prev \cup {u}
               /\ Len(u.username) = 8
               /\ SubSeq(u.username, 1, Len(S_testuser)) = S_testuser
               /\ resp.user = Some(ToResponse(u))

====
